---- MODULE Spec2Model ----
(***************************************************************************)
(* Model of the slice pipeline of email-dev-tool:                          *)
(*   - the Figma plugin's auto-slice suggester (src/teams/readme.md),      *)
(*   - the backend's slice geometry, adaptive compressor and push          *)
(*     handler (src/server.js).                                            *)
(*                                                                         *)
(* Numbers that the code rounds are carried in half units: a value named   *)
(* v2 stands for the real number v2 / 2, so that Math.round is a real      *)
(* conversion ((v2 + 1) \div 2) and not the identity.                      *)
(***************************************************************************)
EXTENDS Integers, Sequences, FiniteSets, TLC

VARIABLES
    call,       \* the last call of a pure geometry function: its name, arguments and result
    cmp,        \* one compressSlice activation (src/server.js:163-193)
    inv,        \* the /api/push invocations in progress (src/server.js:208-357)
    env         \* process.env: the credentials the process was started with

vars == <<call, cmp, inv, env>>

-----------------------------------------------------------------------------
(* Numeric helpers *)

Max(a, b) == IF a >= b THEN a ELSE b

Min(a, b) == IF a <= b THEN a ELSE b

\* Math.round of the half-unit value v2 (v2 / 2): halves round towards +infinity.
Round2(v2) == (v2 + 1) \div 2

\* Math.round(n * pct / 100) for an integer n.
RoundPct(n, pct) == (n * pct + 50) \div 100

\* clamp(n, min, max): Math.max(min, Math.min(max, n))
clamp(n, lo, hi) == Max(lo, Min(hi, n))

\* An optional numeric field of a message: absent (undefined) or a number in half units.
None == [given |-> FALSE, v2 |-> 0]

Num2(v2) == [given |-> TRUE, v2 |-> v2]

\* toInt(n, fallback): Number(n) when finite, rounded; else the fallback.
toInt(n, fallback) == IF n.given THEN Round2(n.v2) ELSE fallback

-----------------------------------------------------------------------------
(* The plugin's auto-slice suggester *)

RECURSIVE InsertByStart(_, _)
\* Stable insertion of interval iv into a sequence sorted by start.
InsertByStart(s, iv) ==
    IF s = <<>> THEN <<iv>>
    ELSE IF iv.start < Head(s).start THEN <<iv>> \o s
    ELSE <<Head(s)>> \o InsertByStart(Tail(s), iv)

RECURSIVE SortByStart(_)
\* intervals.sort(function(a, b) { return a.start - b.start; }) (stable)
SortByStart(s) ==
    IF s = <<>> THEN <<>>
    ELSE InsertByStart(SortByStart(SubSeq(s, 1, Len(s) - 1)), s[Len(s)])

RECURSIVE MergeFrom(_, _, _, _)
\* The loop of mergeIntervals from index i on, merged being the result so far.
MergeFrom(sorted, i, merged, joinGap) ==
    IF i > Len(sorted) THEN merged
    ELSE LET prev == merged[Len(merged)]
             cur  == sorted[i]
         IN  IF cur.start <= prev.end + joinGap
             THEN MergeFrom(sorted, i + 1,
                            [merged EXCEPT ![Len(merged)].end = Max(prev.end, cur.end)],
                            joinGap)
             ELSE MergeFrom(sorted, i + 1, Append(merged, cur), joinGap)

\* mergeIntervals that sorts and never joins two intervals.
mergeIntervalsNoJoin(intervals, joinGap) == SortByStart(intervals)

mergeIntervals(intervals, joinGap) ==
    IF intervals = <<>> THEN <<>>
    ELSE LET sorted == SortByStart(intervals)
         IN  MergeFrom(sorted, 2, <<sorted[1]>>, joinGap)

RECURSIVE SplitFrom(_, _, _)
\* The while loop of splitByMaxHeight from position y on.
SplitFrom(y, end, maxH) ==
    IF y < end
    THEN LET h == Min(maxH, end - y)
         IN  <<[start |-> y, end |-> y + h]>> \o SplitFrom(y + h, end, maxH)
    ELSE <<>>

splitByMaxHeight(interval, maxH) == SplitFrom(interval.start, interval.end, maxH)

RECURSIVE ChildIntervals(_, _, _, _, _, _)
\* The loop over frameNode.children: the clamped spans of the qualifying children.
ChildIntervals(children, i, bodyTop, bodyBottom, minWidth, minSectionHeight) ==
    IF i > Len(children) THEN <<>>
    ELSE LET child == children[i]
             relY  == Round2(child.y2)
             relH  == Round2(child.h2)
             relW  == Round2(child.w2)
             start == clamp(relY, bodyTop, bodyBottom)
             end   == clamp(relY + relH, bodyTop, bodyBottom)
             rest  == ChildIntervals(children, i + 1, bodyTop, bodyBottom,
                                     minWidth, minSectionHeight)
         IN  IF ~child.visible \/ ~child.hasBounds THEN rest
             ELSE IF relW < minWidth THEN rest
             ELSE IF relH < minSectionHeight THEN rest
             ELSE IF end - start < minSectionHeight THEN rest
             ELSE <<[start |-> start, end |-> end]>> \o rest

\* The minimum chunk height suggestSlices keeps (if (h < 8) continue).
MinChunkHeight == 8

RECURSIVE ChunkRects(_, _)
\* The inner loop of suggestSlices over the chunks of one merged interval.
ChunkRects(chunks, frameWidth) ==
    IF chunks = <<>> THEN <<>>
    ELSE LET h    == Head(chunks).end - Head(chunks).start
             rest == ChunkRects(Tail(chunks), frameWidth)
         IN  IF h < MinChunkHeight THEN rest
             ELSE <<[x |-> 0, y |-> Head(chunks).start, width |-> frameWidth, height |-> h]>>
                  \o rest

RECURSIVE MergedRects(_, _, _)
\* The outer loop of suggestSlices over the merged intervals.
MergedRects(merged, maxSliceHeight, frameWidth) ==
    IF merged = <<>> THEN <<>>
    ELSE ChunkRects(splitByMaxHeight(Head(merged), maxSliceHeight), frameWidth)
         \o MergedRects(Tail(merged), maxSliceHeight, frameWidth)

\* A fallback that also drops a tile shorter than the minimum chunk height.
FallbackTileDropsShort(y, bodyBottom, maxH, width) ==
    IF y < bodyBottom /\ bodyBottom - y >= MinChunkHeight
    THEN <<[x |-> 0, y |-> y, width |-> width, height |-> Min(maxH, bodyBottom - y)]>>
    ELSE <<>>

RECURSIVE FallbackTile(_, _, _, _)
\* The fallback loop of suggestSlices: fixed-height tiling of [y, bodyBottom).
FallbackTile(y, bodyBottom, maxH, width) ==
    IF y < bodyBottom
    THEN LET h2 == Min(maxH, bodyBottom - y)
         IN  <<[x |-> 0, y |-> y, width |-> width, height |-> h2]>>
             \o FallbackTile(y + h2, bodyBottom, maxH, width)
    ELSE <<>>

\* The floor and the default of the max slice height.
MinMaxSliceHeight == 200

DefaultMaxSliceHeight == 1200

\* The derived values of suggestSlices.
SuggestFrameWidth(frame) == Round2(frame.width2)

SuggestFrameHeight(frame) == Round2(frame.height2)

SuggestMaxSliceHeight(opts) ==
    Max(MinMaxSliceHeight, toInt(opts.maxSliceHeight, DefaultMaxSliceHeight))

SuggestBodyTop(frame, opts) ==
    clamp(toInt(opts.headerHeight, 0), 0, SuggestFrameHeight(frame))

SuggestBodyBottom(frame, opts) ==
    SuggestFrameHeight(frame) - clamp(toInt(opts.footerHeight, 0), 0, SuggestFrameHeight(frame))

SuggestIntervals(frame, opts) ==
    LET frameWidth  == SuggestFrameWidth(frame)
        frameHeight == SuggestFrameHeight(frame)
        bodyTop     == SuggestBodyTop(frame, opts)
        bodyBottom  == SuggestBodyBottom(frame, opts)
        minSectionHeight == Max(40, RoundPct(frameHeight, 3))
        minWidth    == Max(120, RoundPct(frameWidth, 55))
        fromChildren == ChildIntervals(frame.children, 1, bodyTop, bodyBottom,
                                       minWidth, minSectionHeight)
    IN  IF fromChildren = <<>> THEN <<[start |-> bodyTop, end |-> bodyBottom]>>
        ELSE fromChildren

suggestSlices(frame, opts) ==
    LET frameWidth  == SuggestFrameWidth(frame)
        frameHeight == SuggestFrameHeight(frame)
        maxSliceHeight == SuggestMaxSliceHeight(opts)
        bodyTop     == SuggestBodyTop(frame, opts)
        bodyBottom  == SuggestBodyBottom(frame, opts)
        joinGap     == Max(12, RoundPct(frameHeight, 1))
        merged      == mergeIntervals(SuggestIntervals(frame, opts), joinGap)
        slices      == MergedRects(merged, maxSliceHeight, frameWidth)
    IN  IF ~frame.hasBounds THEN <<>>
        ELSE IF bodyBottom <= bodyTop THEN <<>>
        ELSE IF slices = <<>> THEN FallbackTile(bodyTop, bodyBottom, maxSliceHeight, frameWidth)
        ELSE slices

-----------------------------------------------------------------------------
(* The backend's slice geometry (src/server.js) *)

\* The floor and the default of buildAutoVerticalSlices' safeMax.
SafeMaxFloor == 200

SafeMaxDefault == 1200

\* Math.max(200, Math.round(maxSliceHeight || 1200)): an absent value and 0 are
\* both falsy and take the default.
safeMax(maxSliceHeight) ==
    LET v2 == IF maxSliceHeight.given /\ maxSliceHeight.v2 # 0
              THEN maxSliceHeight.v2 ELSE 2 * SafeMaxDefault
    IN  Max(SafeMaxFloor, Round2(v2))

RECURSIVE AutoTile(_, _, _, _)
\* The while loop of buildAutoVerticalSlices from position y on.
AutoTile(y, bodyBottom, maxH, logicalWidth) ==
    IF y < bodyBottom
    THEN LET h == Min(maxH, bodyBottom - y)
         IN  <<[x |-> 0, y |-> y, width |-> logicalWidth, height |-> h,
                url |-> "", label |-> "", alt |-> ""]>>
             \o AutoTile(y + h, bodyBottom, maxH, logicalWidth)
    ELSE <<>>

buildAutoVerticalSlices(logicalWidth, bodyTop, bodyBottom, maxSliceHeight) ==
    AutoTile(bodyTop, bodyBottom, safeMax(maxSliceHeight), logicalWidth)

\* The URLs safeUrl lets through are those matching /^https?:\/\//i.
HttpUrls == {"http://a.example/x", "HTTPS://b.example"}

OtherUrls == {"", "ftp://c.example", "javascript:alert(1)"}

safeUrl(url) == IF url \in HttpUrls THEN url ELSE ""

\* NormalizeRect that measures the room left from the requested origin, not from
\* the clamped one.
NormalizeRectRawOrigin(logicalWidth, bodyTop, bodyBottom, s) ==
    LET x    == clamp(Round2(s.rect.x2), 0, Max(0, logicalWidth - 1))
        y    == clamp(Round2(s.rect.y2), bodyTop, Max(bodyTop, bodyBottom - 1))
        maxW == logicalWidth - Round2(s.rect.x2)
        maxH == bodyBottom - Round2(s.rect.y2)
        w    == clamp(Round2(s.rect.w2), 1, Max(1, maxW))
        h    == clamp(Round2(s.rect.h2), 1, Max(1, maxH))
    IN  [x |-> x, y |-> y, width |-> w, height |-> h]

\* Lines 110-117: the clamped origin and size of one manual record s, whose rect
\* fields are in half units.
NormalizeRect(logicalWidth, bodyTop, bodyBottom, s) ==
    LET x    == clamp(Round2(s.rect.x2), 0, Max(0, logicalWidth - 1))
        y    == clamp(Round2(s.rect.y2), bodyTop, Max(bodyTop, bodyBottom - 1))
        maxW == logicalWidth - x
        maxH == bodyBottom - y
        w    == clamp(Round2(s.rect.w2), 1, Max(1, maxW))
        h    == clamp(Round2(s.rect.h2), 1, Max(1, maxH))
    IN  [x |-> x, y |-> y, width |-> w, height |-> h]

RECURSIVE NormalizeFrom(_, _, _, _, _)
\* The for loop of normalizeManualRectSlices from index i on.
NormalizeFrom(logicalWidth, bodyTop, bodyBottom, list, i) ==
    IF i > Len(list) THEN <<>>
    ELSE LET s    == list[i]
             r    == NormalizeRect(logicalWidth, bodyTop, bodyBottom, s)
             rest == NormalizeFrom(logicalWidth, bodyTop, bodyBottom, list, i + 1)
         IN  IF ~s.hasRect THEN rest
             ELSE IF r.width < 2 \/ r.height < 2 THEN rest
             ELSE <<[x |-> r.x, y |-> r.y, width |-> r.width, height |-> r.height,
                     url |-> safeUrl(s.url), label |-> s.label, alt |-> s.alt]>>
                  \o rest

normalizeManualRectSlices(logicalWidth, logicalHeight, bodyTop, bodyBottom, manualSlices) ==
    NormalizeFrom(logicalWidth, bodyTop, bodyBottom, manualSlices, 1)

\* px(val, scale) for an integer val and a scale of scale4 / 4.
px(val, scale4) == Max(0, (val * scale4 + 2) \div 4)

\* clampExtractRect that bounds the size by the source size, not by the room left
\* from the clamped origin.
clampExtractRectFromZero(rect, pixelRatio4, sourceWidth, sourceHeight) ==
    LET left     == clamp(px(rect.x, pixelRatio4), 0, Max(0, sourceWidth - 1))
        top      == clamp(px(rect.y, pixelRatio4), 0, Max(0, sourceHeight - 1))
        desiredW == Max(1, px(rect.width, pixelRatio4))
        desiredH == Max(1, px(rect.height, pixelRatio4))
        width    == clamp(desiredW, 1, Max(1, sourceWidth))
        height   == clamp(desiredH, 1, Max(1, sourceHeight))
    IN  [left |-> left, top |-> top, width |-> width, height |-> height]

clampExtractRect(rect, pixelRatio4, sourceWidth, sourceHeight) ==
    LET left     == clamp(px(rect.x, pixelRatio4), 0, Max(0, sourceWidth - 1))
        top      == clamp(px(rect.y, pixelRatio4), 0, Max(0, sourceHeight - 1))
        desiredW == Max(1, px(rect.width, pixelRatio4))
        desiredH == Max(1, px(rect.height, pixelRatio4))
        width    == clamp(desiredW, 1, Max(1, sourceWidth - left))
        height   == clamp(desiredH, 1, Max(1, sourceHeight - top))
    IN  [left |-> left, top |-> top, width |-> width, height |-> height]

\* Lines 229-230 of buildAndUploadSlices: the body region from the header and
\* footer heights (half units; an absent value is falsy and counts as 0).
BodyTop(logicalHeight, headerHeight) ==
    clamp(Round2(IF headerHeight.given THEN headerHeight.v2 ELSE 0), 0, logicalHeight)

BodyBottom(logicalHeight, footerHeight) ==
    logicalHeight - clamp(Round2(IF footerHeight.given THEN footerHeight.v2 ELSE 0),
                          0, logicalHeight)

-----------------------------------------------------------------------------
(* Bounded inputs of the slicers *)

\* The longest list of children of a frame.
MaxChildren == 2

\* All sequences over S of length at most n.
SeqsUpTo(S, n) == UNION {[1..k -> S] : k \in 0..n}

\* Frame sizes in half units: 5, 205, 450 and 1400.5 px high, 200 and 600.5 px wide.
FrameHeights2 == {10, 410, 900, 2801}

FrameWidths2 == {400, 1201}

\* Child bounding boxes (half units): y relative to the frame, height, width.
Box(y2, h2, w2, visible, hasBounds) ==
    [y2 |-> y2, h2 |-> h2, w2 |-> w2, visible |-> visible, hasBounds |-> hasBounds]

ChildBoxes ==
    { Box(0, 200, 600, TRUE, TRUE),      \* [0, 100)
      Box(180, 200, 600, TRUE, TRUE),    \* [90, 190): overlaps the first
      Box(220, 120, 800, TRUE, TRUE),    \* [110, 170): 10 px below the first
      Box(500, 241, 600, TRUE, TRUE),    \* [250, 371): far below
      Box(-100, 1900, 1400, TRUE, TRUE), \* [-50, 900): from above the frame, taller than a slice
      Box(0, 60, 600, TRUE, TRUE),       \* too short
      Box(0, 200, 600, FALSE, TRUE),     \* hidden
      Box(0, 200, 600, TRUE, FALSE) }    \* no bounding box

HeaderFooterOpts == {None, Num2(101), Num2(5000)}

MaxSliceHeightOpts == {None, Num2(0), Num2(100), Num2(400), Num2(601), Num2(3000)}

Frames ==
    { [width2 |-> w, height2 |-> h, children |-> c, hasBounds |-> TRUE] :
        w \in FrameWidths2, h \in FrameHeights2, c \in SeqsUpTo(ChildBoxes, MaxChildren) }
    \cup { [width2 |-> 400, height2 |-> 900, children |-> <<>>, hasBounds |-> FALSE] }

SliceOpts ==
    { [headerHeight |-> hh, footerHeight |-> fh, maxSliceHeight |-> m] :
        hh \in HeaderFooterOpts, fh \in HeaderFooterOpts, m \in MaxSliceHeightOpts }

LogicalHeights == {5, 205, 450, 1500}

LogicalWidths == {1, 600}

-----------------------------------------------------------------------------
(* The slicers as operations: one call each, from the idle state *)

Idle == [op |-> "idle"]

\* figma.ui.onmessage, type "auto-suggest": suggestSlices(activeNode, opts).
CallSuggestSlices ==
    /\ call = Idle
    /\ \E frame \in Frames, opts \in SliceOpts :
          call' = [op |-> "suggestSlices", frame |-> frame, opts |-> opts,
                   bodyTop |-> SuggestBodyTop(frame, opts),
                   bodyBottom |-> SuggestBodyBottom(frame, opts),
                   maxSliceHeight |-> opts.maxSliceHeight,
                   out |-> suggestSlices(frame, opts)]
    /\ UNCHANGED <<cmp, inv, env>>

\* buildAndUploadSlices without manual slices: the body region, then
\* buildAutoVerticalSlices (lines 229-240).
CallBuildAutoVerticalSlices ==
    /\ call = Idle
    /\ \E lw \in LogicalWidths, lh \in LogicalHeights,
          hh \in HeaderFooterOpts, fh \in HeaderFooterOpts, m \in MaxSliceHeightOpts :
          LET bodyTop    == BodyTop(lh, hh)
              bodyBottom == BodyBottom(lh, fh)
          IN  /\ bodyBottom > bodyTop
              /\ call' = [op |-> "buildAutoVerticalSlices", logicalWidth |-> lw,
                          bodyTop |-> bodyTop, bodyBottom |-> bodyBottom,
                          maxSliceHeight |-> m,
                          out |-> buildAutoVerticalSlices(lw, bodyTop, bodyBottom, m)]
    /\ UNCHANGED <<cmp, inv, env>>

\* The environment of a process with a default credential and one account.
DefaultEnvironment ==
    [KLAVIYO_ACCOUNTS |-> <<"a", ",", "b">>,
     KLAVIYO_API_KEY |-> <<"api-secret">>,
     KLAVIYO_PRIVATE_KEY |-> <<>>,
     accountKeys |-> (<<"KLAVIYO_API_KEY_", "A">> :> <<"secret-of-A">>)]

Init == call = Idle /\ cmp = Idle /\ inv = Idle /\ env = DefaultEnvironment

NextSlices == CallSuggestSlices \/ CallBuildAutoVerticalSlices

SpecSlices == Init /\ [][NextSlices]_vars

-----------------------------------------------------------------------------
(* Claims about the slicers *)

Suggested == call.op = "suggestSlices"

BodyNonEmpty == call.bodyBottom > call.bodyTop

\* The pixel rows of rectangle r.
Rows(r) == r.y .. (r.y + r.height - 1)

InsideBody(r) == r.height > 0 /\ call.bodyTop <= r.y /\ r.y + r.height <= call.bodyBottom

\* No child of the frame qualifies, so the single interval is the whole body.
NoQualifyingChild ==
    SuggestIntervals(call.frame, call.opts)
        = <<[start |-> call.bodyTop, end |-> call.bodyBottom]>>
    /\ \A i \in 1..Len(call.frame.children) :
          ChildIntervals(<<call.frame.children[i]>>, 1, call.bodyTop, call.bodyBottom,
                         Max(120, RoundPct(SuggestFrameWidth(call.frame), 55)),
                         Max(40, RoundPct(SuggestFrameHeight(call.frame), 3))) = <<>>

\* The height of the last chunk of a body tiled at the max slice height.
BodyRemainder ==
    (call.bodyBottom - call.bodyTop) % SuggestMaxSliceHeight(call.opts)

\* The rectangles tile the body top to bottom, each starting where the last ended.
Contiguous ==
    /\ Len(call.out) >= 1
    /\ call.out[1].y = call.bodyTop
    /\ \A i \in 1..(Len(call.out) - 1) :
          call.out[i + 1].y = call.out[i].y + call.out[i].height
    /\ call.out[Len(call.out)].y + call.out[Len(call.out)].height = call.bodyBottom

ExactCover ==
    /\ \A i \in 1..Len(call.out) : InsideBody(call.out[i])
    /\ \A row \in call.bodyTop .. (call.bodyBottom - 1) :
          Cardinality({i \in 1..Len(call.out) : row \in Rows(call.out[i])}) = 1

\* C1 as stated: for every frame with a non-empty body, suggestSlices returns at
\* least one rectangle and every pixel row of the body belongs to exactly one
\* returned rectangle, with nothing outside the body.
C1_ExactCover ==
    (Suggested /\ call.frame.hasBounds /\ BodyNonEmpty)
        => (Len(call.out) >= 1 /\ ExactCover)

\* C1 amended: for every frame with a non-empty body, suggestSlices returns at
\* least one rectangle; the rectangles lie inside the body, come top to bottom and
\* never overlap (a pixel row of the body belongs to at most one of them); the
\* cover is exact when no child qualifies and the body's last chunk is not a
\* dropped remainder shorter than 8 px.
C1_DisjointInsideBody ==
    (Suggested /\ call.frame.hasBounds /\ BodyNonEmpty)
        => /\ Len(call.out) >= 1
           /\ \A i \in 1..Len(call.out) : InsideBody(call.out[i])
           /\ \A i \in 1..(Len(call.out) - 1) :
                 call.out[i].y + call.out[i].height <= call.out[i + 1].y
           /\ (NoQualifyingChild
                /\ ~(BodyRemainder \in 1..(MinChunkHeight - 1)
                     /\ call.bodyBottom - call.bodyTop > SuggestMaxSliceHeight(call.opts)))
               => Contiguous

\* Two overlapping children were merged and a gap was left below them.
C1_Witness ==
    /\ Suggested /\ BodyNonEmpty
    /\ Len(call.frame.children) = 2
    /\ Len(SuggestIntervals(call.frame, call.opts)) = 2
    /\ Len(call.out) = 1
    /\ call.out[1].y + call.out[1].height < call.bodyBottom

\* C2: suggestSlices returns an empty sequence only when the body region is
\* empty or the frame has no bounds; for a non-empty body it returns at least
\* one rectangle, from the merge and split or from the fallback tiling.
C2_NeverEmpty ==
    Suggested
        => ((call.out = <<>>) <=> (~call.frame.hasBounds \/ call.bodyBottom <= call.bodyTop))

\* The merge and split kept no chunk (a body shorter than 8 px) and the fallback
\* tiling produced the rectangle.
C2_Witness ==
    /\ Suggested /\ call.frame.hasBounds /\ BodyNonEmpty
    /\ call.bodyBottom - call.bodyTop < MinChunkHeight
    /\ Len(call.out) = 1
    /\ call.out[1].height = call.bodyBottom - call.bodyTop

\* The max slice height as C3 states it: the requested value floored at 200,
\* and 1200 when none is requested.
RequestedMaxSliceHeight(m) ==
    IF m.given THEN Max(200, Round2(m.v2)) ELSE 1200

\* C3 as stated: every rectangle of suggestSlices and of buildAutoVerticalSlices
\* has a height above 0 and at most the requested max slice height floored at
\* 200 (1200 when absent).
C3_HeightWithinMax ==
    call.op \in {"suggestSlices", "buildAutoVerticalSlices"}
        => \A i \in 1..Len(call.out) :
              /\ call.out[i].height > 0
              /\ call.out[i].height <= RequestedMaxSliceHeight(call.maxSliceHeight)

-----------------------------------------------------------------------------
(* The manual slice normalizer as an operation *)

\* The largest logical frame side of the normalizer's and the rescaler's inputs.
MaxFrame == 3

\* Requested origins and sizes in half units: below the frame, fractional, inside
\* and beyond the frame.
Origins2 == {-3, 0, 1, 2, 4, 2 * MaxFrame + 3}

Sizes2 == {-2, 0, 3, 4, 5, 4 * MaxFrame}

ManualRecord(x2, y2, w2, h2, url, label, alt) ==
    [hasRect |-> TRUE, rect |-> [x2 |-> x2, y2 |-> y2, w2 |-> w2, h2 |-> h2],
     url |-> url, label |-> label, alt |-> alt]

\* A record with no rect (if (!s || !s.rect) continue).
NoRectRecord ==
    [hasRect |-> FALSE, rect |-> [x2 |-> 0, y2 |-> 0, w2 |-> 0, h2 |-> 0],
     url |-> "", label |-> "", alt |-> ""]

HeadRecords ==
    { ManualRecord(x2, y2, w2, h2, "http://a.example/x", "hero", "") :
        x2 \in Origins2, y2 \in Origins2, w2 \in Sizes2, h2 \in Sizes2 }

TailRecords ==
    { ManualRecord(0, 0, 4, 4, "HTTPS://b.example", "", "banner"),
      ManualRecord(1, 1, 12, 12, "javascript:alert(1)", "cta", "cta"),
      ManualRecord(0, 0, 2, 2, "ftp://c.example", "", ""),
      NoRectRecord }

ManualLists ==
    {<<>>} \cup { <<s>> \o t : s \in HeadRecords, t \in SeqsUpTo(TailRecords, 1) }

\* A returned rectangle wrapped as a manual record again.
AsRecord(r) == ManualRecord(2 * r.x, 2 * r.y, 2 * r.width, 2 * r.height, r.url, r.label, r.alt)

AsRecords(rects) == [i \in 1..Len(rects) |-> AsRecord(rects[i])]

\* buildAndUploadSlices with manual slices: normalizeManualRectSlices on a body
\* region that lines 229-232 made non-empty.
CallNormalizeManualRectSlices ==
    /\ call = Idle
    /\ \E lw \in 1..MaxFrame, lh \in {MaxFrame}, list \in ManualLists :
       \E bodyTop \in 0..lh, bodyBottom \in 0..lh :
          /\ bodyBottom > bodyTop
          /\ call' = [op |-> "normalizeManualRectSlices", logicalWidth |-> lw,
                      logicalHeight |-> lh, bodyTop |-> bodyTop, bodyBottom |-> bodyBottom,
                      manualSlices |-> list,
                      out |-> normalizeManualRectSlices(lw, lh, bodyTop, bodyBottom, list)]
    /\ UNCHANGED <<cmp, inv, env>>

\* The returned rectangles are sent in again as manual slices of the same frame.
CallNormalizeAgain ==
    /\ call.op = "normalizeManualRectSlices"
    /\ call' = [op |-> "normalizeAgain", logicalWidth |-> call.logicalWidth,
                logicalHeight |-> call.logicalHeight,
                bodyTop |-> call.bodyTop, bodyBottom |-> call.bodyBottom,
                manualSlices |-> AsRecords(call.out),
                first |-> call.out,
                out |-> normalizeManualRectSlices(call.logicalWidth, call.logicalHeight,
                                                  call.bodyTop, call.bodyBottom,
                                                  AsRecords(call.out))]
    /\ UNCHANGED <<cmp, inv, env>>

NextManual == CallNormalizeManualRectSlices \/ CallNormalizeAgain

SpecManual == Init /\ [][NextManual]_vars

-----------------------------------------------------------------------------
(* The rectangle rescaler as an operation *)

\* The largest side of the source image.
MaxSource == 6

\* Pixel ratios in quarters: 1, 1.25, 1.5, 2, 2.25.
PixelRatios4 == {4, 5, 6, 8, 9}

\* The rectangles fully inside a logical frame of lw by lh.
RectsInside(lw, lh) ==
    { [x |-> x, y |-> y, width |-> w, height |-> h] :
        x \in 0..lw, y \in 0..lh, w \in 0..lw, h \in 0..lh }

CallClampExtractRect ==
    /\ call = Idle
    /\ \E lw \in 1..MaxFrame, lh \in 1..MaxFrame, pr \in PixelRatios4,
          sw \in 1..MaxSource, sh \in 1..MaxSource :
       \E rect \in RectsInside(lw, lh) :
          /\ rect.x + rect.width <= lw
          /\ rect.y + rect.height <= lh
          /\ call' = [op |-> "clampExtractRect", rect |-> rect, pixelRatio4 |-> pr,
                      sourceWidth |-> sw, sourceHeight |-> sh,
                      out |-> clampExtractRect(rect, pr, sw, sh)]
    /\ UNCHANGED <<cmp, inv, env>>

NextExtract == CallClampExtractRect

SpecExtract == Init /\ [][NextExtract]_vars

-----------------------------------------------------------------------------
(* Claims about the rescaler and the normalizer *)

\* C4: for a pixel ratio of at least 1, a source image of at least 1 x 1 and a
\* logical rectangle inside the logical frame, clampExtractRect returns
\* 0 <= left, 0 <= top, width >= 1, height >= 1, left + width <= sourceWidth
\* and top + height <= sourceHeight.
C4_ExtractInsideSource ==
    call.op = "clampExtractRect"
        => /\ 0 <= call.out.left
           /\ 0 <= call.out.top
           /\ call.out.width >= 1
           /\ call.out.height >= 1
           /\ call.out.left + call.out.width <= call.sourceWidth
           /\ call.out.top + call.out.height <= call.sourceHeight

\* The scaled rectangle reaches beyond a source image smaller than the scaled
\* frame, from an origin inside it, and was cut back to the source's edges.
C4_Witness ==
    /\ call.op = "clampExtractRect"
    /\ call.out.left > 0
    /\ call.out.top > 0
    /\ px(call.rect.x, call.pixelRatio4) + px(call.rect.width, call.pixelRatio4)
            > call.sourceWidth
    /\ px(call.rect.y, call.pixelRatio4) + px(call.rect.height, call.pixelRatio4)
            > call.sourceHeight
    /\ call.out.left + call.out.width = call.sourceWidth
    /\ call.out.top + call.out.height = call.sourceHeight

\* A record whose rect is integer, at least 2 x 2 and inside the frame width and
\* the body region.
InBoundsInteger(s) ==
    /\ s.hasRect
    /\ \A v2 \in {s.rect.x2, s.rect.y2, s.rect.w2, s.rect.h2} : v2 % 2 = 0
    /\ s.rect.w2 >= 4 /\ s.rect.h2 >= 4
    /\ 0 <= s.rect.x2 /\ s.rect.x2 + s.rect.w2 <= 2 * call.logicalWidth
    /\ 2 * call.bodyTop <= s.rect.y2 /\ s.rect.y2 + s.rect.h2 <= 2 * call.bodyBottom

\* C5: normalizeManualRectSlices is idempotent: its result sent in again comes
\* back as the same sequence, none dropped, each x, y, width, height (and url,
\* label, alt) identical; and a list of integer records of at least 2 x 2 inside
\* the frame width and the body region is returned unchanged.
C5_NormalizeIdempotent ==
    /\ call.op = "normalizeAgain" => call.out = call.first
    /\ (call.op = "normalizeManualRectSlices"
         /\ \A i \in 1..Len(call.manualSlices) : InBoundsInteger(call.manualSlices[i]))
        => /\ Len(call.out) = Len(call.manualSlices)
           /\ AsRecords(call.out)
                 = [i \in 1..Len(call.manualSlices) |->
                       [call.manualSlices[i] EXCEPT !.url = safeUrl(@)]]

\* Two rectangles that the first pass had to clamp came back unchanged from
\* the second pass.
C5_Witness ==
    /\ call.op = "normalizeAgain"
    /\ Len(call.first) = 2
    /\ call.out = call.first
    /\ call.first[1].x + call.first[1].width = call.logicalWidth
    /\ call.first[1].y = call.bodyTop /\ call.first[1].y > 0

\* C6: every rectangle normalizeManualRectSlices returns lies inside the frame
\* width and the body region: 0 <= x <= frameWidth - 1, bodyTop <= y <=
\* bodyBottom - 1, width >= 2, height >= 2, x + width <= frameWidth and
\* y + height <= bodyBottom.
C6_NormalizedInsideBody ==
    call.op = "normalizeManualRectSlices"
        => \A i \in 1..Len(call.out) :
              LET r == call.out[i]
              IN  /\ 0 <= r.x /\ r.x <= call.logicalWidth - 1
                  /\ call.bodyTop <= r.y /\ r.y <= call.bodyBottom - 1
                  /\ r.width >= 2 /\ r.height >= 2
                  /\ r.x + r.width <= call.logicalWidth
                  /\ r.y + r.height <= call.bodyBottom

\* A record that starts left of the frame and above the body and asks for more
\* than the frame holds was kept, clamped to the frame and the body.
C6_Witness ==
    /\ call.op = "normalizeManualRectSlices"
    /\ Len(call.manualSlices) >= 1 /\ Len(call.out) >= 1
    /\ call.manualSlices[1].rect.x2 < 0
    /\ call.manualSlices[1].rect.y2 < 2 * call.bodyTop
    /\ call.manualSlices[1].rect.w2 > 2 * call.logicalWidth
    /\ call.out[1].x = 0 /\ call.out[1].width = call.logicalWidth
    /\ call.out[1].y = call.bodyTop
    /\ call.out[1].height = call.bodyBottom - call.bodyTop

-----------------------------------------------------------------------------
(* The adaptive compressor: compressSlice (src/server.js:163-193), one step per
   encode *)

\* SLICE_JPEG_QUALITY, SLICE_MIN_JPEG_QUALITY and SLICE_TARGET_KB when unset.
DefaultJpegQuality == 80

MinJpegQuality == 60

TargetSliceKb == 250

\* quality -= 5
QualityStep == 5

\* The values the environment may configure.
ConfiguredDefaults == {DefaultJpegQuality, 82, 70}

ConfiguredFloors == {MinJpegQuality, 65}

ConfiguredTargetsKb == {TargetSliceKb, 1}

\* The sizes an encode may return, around the byte budget.
EncodedSizes(targetBytes) == {1, targetBytes, targetBytes + 1, 4 * targetBytes}

\* The while condition of line 181.
KeepSearching(c) == c.best.size > c.targetBytes /\ c.quality > c.minJpegQuality

\* compressSlice(sliceBuffer, hasAlpha) is entered; the configuration is the
\* process's.
CompressEnter ==
    /\ cmp = Idle
    /\ \E dq \in ConfiguredDefaults, mq \in ConfiguredFloors,
          kb \in ConfiguredTargetsKb, alpha \in BOOLEAN :
          cmp' = [op |-> "compressSlice", pc |-> "entered", hasAlpha |-> alpha,
                  defaultJpegQuality |-> dq, minJpegQuality |-> mq,
                  targetBytes |-> kb * 1024,
                  quality |-> 0, best |-> [size |-> 0, quality |-> 0, mime |-> ""],
                  encodes |-> 0]
    /\ UNCHANGED <<call, inv, env>>

\* Lines 166-175: the lossless path, one PNG encode and no quality.
EncodePng ==
    /\ cmp.op = "compressSlice" /\ cmp.pc = "entered" /\ cmp.hasAlpha
    /\ \E size \in EncodedSizes(cmp.targetBytes) :
          cmp' = [cmp EXCEPT !.pc = "returned",
                             !.best = [size |-> size, quality |-> 0, mime |-> "image/png"],
                             !.encodes = @ + 1]
    /\ UNCHANGED <<call, inv, env>>

\* Lines 177-179: the first JPEG encode, at the default quality.
EncodeFirstJpeg ==
    /\ cmp.op = "compressSlice" /\ cmp.pc = "entered" /\ ~cmp.hasAlpha
    /\ \E size \in EncodedSizes(cmp.targetBytes) :
          cmp' = [cmp EXCEPT !.pc = "searching",
                             !.quality = cmp.defaultJpegQuality,
                             !.best = [size |-> size, quality |-> cmp.defaultJpegQuality,
                                       mime |-> "image/jpeg"],
                             !.encodes = @ + 1]
    /\ UNCHANGED <<call, inv, env>>

\* Lines 181-184: one turn of the while loop.
EncodeLowerJpeg ==
    /\ cmp.op = "compressSlice" /\ cmp.pc = "searching"
    /\ KeepSearching(cmp)
    /\ \E size \in EncodedSizes(cmp.targetBytes) :
          cmp' = [cmp EXCEPT !.quality = @ - QualityStep,
                             !.best = [size |-> size, quality |-> cmp.quality - QualityStep,
                                       mime |-> "image/jpeg"],
                             !.encodes = @ + 1]
    /\ UNCHANGED <<call, inv, env>>

\* Lines 186-192: the loop is left and the result returned.
CompressReturn ==
    /\ cmp.op = "compressSlice" /\ cmp.pc = "searching"
    /\ ~KeepSearching(cmp)
    /\ cmp' = [cmp EXCEPT !.pc = "returned"]
    /\ UNCHANGED <<call, inv, env>>

\* An encode rejects (sharp's toBuffer throws): compressSlice throws.
EncodeThrows ==
    /\ cmp.op = "compressSlice"
    /\ \/ cmp.pc = "entered"
       \/ cmp.pc = "searching" /\ KeepSearching(cmp)
    /\ cmp' = [cmp EXCEPT !.pc = "threw"]
    /\ UNCHANGED <<call, inv, env>>

NextCompress ==
    \/ CompressEnter
    \/ EncodePng
    \/ EncodeFirstJpeg
    \/ EncodeLowerJpeg
    \/ CompressReturn
    \/ EncodeThrows

SpecCompress == Init /\ [][NextCompress]_vars

\* C7 as stated: on the opaque path the number of encodes compressSlice performs
\* is at most (default - floor) / 5 + 1, for every configured default and floor.
C7_EncodesWithinBound ==
    (cmp.op = "compressSlice" /\ ~cmp.hasAlpha)
        => QualityStep * (cmp.encodes - 1) <= cmp.defaultJpegQuality - cmp.minJpegQuality

\* C8 as stated: on the lossy path the returned quality q satisfies
\* floor <= q <= default, the returned buffer is the encoding made at q, and
\* that buffer is within the byte budget or q equals the floor.
C8_QualityWithinFloor ==
    (cmp.op = "compressSlice" /\ ~cmp.hasAlpha /\ cmp.pc = "returned")
        => /\ cmp.minJpegQuality <= cmp.quality
           /\ cmp.quality <= cmp.defaultJpegQuality
           /\ cmp.best.quality = cmp.quality
           /\ (cmp.best.size <= cmp.targetBytes \/ cmp.quality = cmp.minJpegQuality)

-----------------------------------------------------------------------------
(* Credential resolution: resolveApiKey (src/server.js:39-87).  A string is a
   sequence of one-character strings; an unset or empty environment variable
   is the empty sequence. *)

\* toLowerCase and toUpperCase on the characters of the model's alphabet.
LowerChar(c) == IF c = "A" THEN "a" ELSE IF c = "B" THEN "b" ELSE c

UpperChar(c) == IF c = "a" THEN "A" ELSE IF c = "b" THEN "B" ELSE c

\* The classes [a-z0-9_-], [A-Z0-9] and white space, on the model's alphabet.
IdChars == {"a", "b", "1", "_", "-"}

EnvKeyChars == {"A", "B", "1"}

SpaceChars == {" "}

RECURSIVE KeepChars(_, _)
\* str.replace(/[^...]/g, ''): the characters of str that are in keep.
KeepChars(str, keep) ==
    IF str = <<>> THEN <<>>
    ELSE IF Head(str) \in keep THEN <<Head(str)>> \o KeepChars(Tail(str), keep)
    ELSE KeepChars(Tail(str), keep)

RECURSIVE TrimLeft(_)
TrimLeft(str) ==
    IF str # <<>> /\ Head(str) \in SpaceChars THEN TrimLeft(Tail(str)) ELSE str

RECURSIVE TrimRight(_)
TrimRight(str) ==
    IF str # <<>> /\ str[Len(str)] \in SpaceChars
    THEN TrimRight(SubSeq(str, 1, Len(str) - 1)) ELSE str

\* String.prototype.trim
Trim(str) == TrimRight(TrimLeft(str))

\* normalizeAccountId: trim, lower-case, drop what is not in [a-z0-9_-].
normalizeAccountId(raw) ==
    LET val == Trim(raw)
    IN  KeepChars([i \in 1..Len(val) |-> LowerChar(val[i])], IdChars)

RECURSIVE SplitFrom2(_, _)
\* str.split(','): the pieces of str, cur being the piece in progress.
SplitFrom2(str, cur) ==
    IF str = <<>> THEN <<cur>>
    ELSE IF Head(str) = "," THEN <<cur>> \o SplitFrom2(Tail(str), <<>>)
    ELSE SplitFrom2(Tail(str), Append(cur, Head(str)))

SplitCommas(str) == SplitFrom2(str, <<>>)

RECURSIVE Distinct(_, _)
\* Array.from(new Set(list)): list without its later duplicates, seen being
\* the elements already kept.
Distinct(list, seen) ==
    IF list = <<>> THEN <<>>
    ELSE IF Head(list) \in seen THEN Distinct(Tail(list), seen)
    ELSE <<Head(list)>> \o Distinct(Tail(list), seen \cup {Head(list)})

RECURSIVE NonEmptyNormalized(_)
\* .map((v) => normalizeAccountId(v)).filter(Boolean)
NonEmptyNormalized(list) ==
    IF list = <<>> THEN <<>>
    ELSE LET id == normalizeAccountId(Head(list))
         IN  IF id = <<>> THEN NonEmptyNormalized(Tail(list))
             ELSE <<id>> \o NonEmptyNormalized(Tail(list))

readConfiguredAccounts(environment) ==
    Distinct(NonEmptyNormalized(SplitCommas(environment.KLAVIYO_ACCOUNTS)), {})

\* accountEnvKey: KLAVIYO_API_KEY_ and the id in upper case with every
\* character outside [A-Z0-9] replaced by "_".
accountEnvKey(accountId) ==
    <<"KLAVIYO_API_KEY_">>
    \o [i \in 1..Len(accountId) |->
           IF UpperChar(accountId[i]) \in EnvKeyChars THEN UpperChar(accountId[i]) ELSE "_"]

\* process.env[name]: the empty sequence when unset.
EnvGet(environment, name) ==
    IF name \in DOMAIN environment.accountKeys THEN environment.accountKeys[name] ELSE <<>>

NoError == [message |-> "", accountId |-> <<>>, expected |-> <<>>]

\* resolveApiKey that uses the default credential when the account has no
\* binding of its own.
resolveApiKeyFallsBack(accountIdRaw, environment) ==
    LET accountId  == normalizeAccountId(accountIdRaw)
        configured == readConfiguredAccounts(environment)
        envName    == accountEnvKey(accountId)
        key        == EnvGet(environment, envName)
        fallback   == IF environment.KLAVIYO_API_KEY # <<>>
                      THEN environment.KLAVIYO_API_KEY ELSE environment.KLAVIYO_PRIVATE_KEY
        firstName  == accountEnvKey(configured[1])
        firstKey   == EnvGet(environment, firstName)
    IN  IF accountId # <<>> /\ key # <<>>
        THEN [ok |-> TRUE, accountId |-> accountId, apiKey |-> key,
              source |-> envName, error |-> NoError]
        ELSE IF fallback # <<>>
        THEN [ok |-> TRUE, accountId |-> <<"default">>, apiKey |-> fallback,
              source |-> IF environment.KLAVIYO_API_KEY # <<>>
                         THEN <<"KLAVIYO_API_KEY">> ELSE <<"KLAVIYO_PRIVATE_KEY">>,
              error |-> NoError]
        ELSE IF configured # <<>> /\ firstKey # <<>>
        THEN [ok |-> TRUE, accountId |-> configured[1], apiKey |-> firstKey,
              source |-> firstName, error |-> NoError]
        ELSE IF accountId # <<>>
        THEN [ok |-> FALSE, accountId |-> <<>>, apiKey |-> <<>>, source |-> <<>>,
              error |-> [message |-> "No API key configured for accountId",
                         accountId |-> accountId, expected |-> envName]]
        ELSE [ok |-> FALSE, accountId |-> <<>>, apiKey |-> <<>>, source |-> <<>>,
              error |-> [message |-> "No Klaviyo API key found", accountId |-> <<>>,
                         expected |-> <<>>]]

resolveApiKey(accountIdRaw, environment) ==
    LET accountId  == normalizeAccountId(accountIdRaw)
        configured == readConfiguredAccounts(environment)
        envName    == accountEnvKey(accountId)
        key        == EnvGet(environment, envName)
        fallback   == IF environment.KLAVIYO_API_KEY # <<>>
                      THEN environment.KLAVIYO_API_KEY ELSE environment.KLAVIYO_PRIVATE_KEY
        firstName  == accountEnvKey(configured[1])
        firstKey   == EnvGet(environment, firstName)
    IN  IF accountId # <<>>
        THEN IF key = <<>>
             THEN [ok |-> FALSE, accountId |-> <<>>, apiKey |-> <<>>, source |-> <<>>,
                   error |-> [message |-> "No API key configured for accountId",
                              accountId |-> accountId, expected |-> envName]]
             ELSE [ok |-> TRUE, accountId |-> accountId, apiKey |-> key,
                   source |-> envName, error |-> NoError]
        ELSE IF fallback # <<>>
        THEN [ok |-> TRUE, accountId |-> <<"default">>, apiKey |-> fallback,
              source |-> IF environment.KLAVIYO_API_KEY # <<>>
                         THEN <<"KLAVIYO_API_KEY">> ELSE <<"KLAVIYO_PRIVATE_KEY">>,
              error |-> NoError]
        ELSE IF configured # <<>> /\ firstKey # <<>>
        THEN [ok |-> TRUE, accountId |-> configured[1], apiKey |-> firstKey,
              source |-> firstName, error |-> NoError]
        ELSE [ok |-> FALSE, accountId |-> <<>>, apiKey |-> <<>>, source |-> <<>>,
              error |-> [message |-> "No Klaviyo API key found", accountId |-> <<>>,
                         expected |-> <<>>]]

-----------------------------------------------------------------------------
(* The push handler: app.post('/api/push') and buildAndUploadSlices
   (src/server.js:208-266, 285-357), one step per await *)

\* The invocations that may be in progress at once.
Invocations == {1, 2}

AutoRequest ==
    [accountId |-> <<>>, batchName |-> "Promo", frameName |-> "", hasImage |-> TRUE,
     logicalWidth |-> 600, logicalHeight |-> 450, pixelRatio4 |-> 8,
     headerHeight |-> None, footerHeight |-> None, maxSliceHeight |-> Num2(400),
     manualSlices |-> <<>>, sourceWidth |-> 1200, sourceHeight |-> 899]

ManualRequest ==
    [accountId |-> <<" ", "A", "!">>, batchName |-> "", frameName |-> "Hero", hasImage |-> TRUE,
     logicalWidth |-> 3, logicalHeight |-> 4, pixelRatio4 |-> 6,
     headerHeight |-> Num2(1), footerHeight |-> None, maxSliceHeight |-> None,
     manualSlices |-> << ManualRecord(-3, 0, 12, 5, "http://a.example/x", "hero", ""),
                         ManualRecord(4, 4, 1, 4, "", "", ""),
                         ManualRecord(2, 4, 4, 4, "ftp://c.example", "cta", "cta") >>,
     sourceWidth |-> 4, sourceHeight |-> 6]

Requests ==
    { AutoRequest,
      ManualRequest,
      [AutoRequest EXCEPT !.accountId = <<"b">>],
      [AutoRequest EXCEPT !.hasImage = FALSE],
      [AutoRequest EXCEPT !.sourceWidth = 0],
      [AutoRequest EXCEPT !.headerHeight = Num2(5000)],
      [ManualRequest EXCEPT !.manualSlices = <<NoRectRecord>>] }

\* String(batchName || frameName || 'Figma Export')
SafeBatchName(req) ==
    IF req.batchName # "" THEN req.batchName
    ELSE IF req.frameName # "" THEN req.frameName
    ELSE "Figma Export"

\* Number(pixelRatio || 1), in quarters.
SafePixelRatio4(req) == IF req.pixelRatio4 = 0 THEN 4 ELSE req.pixelRatio4

IdleInvocation ==
    [pc |-> "idle", req |-> AutoRequest, slices |-> <<>>, i |-> 0,
     extractRect |-> [left |-> 0, top |-> 0, width |-> 0, height |-> 0],
     hasAlpha |-> FALSE, log |-> <<>>, uploads |-> <<>>, inFlight |-> {},
     failedAt |-> 0, resp |-> [status |-> 0],
     resolved |-> [ok |-> FALSE, accountId |-> <<>>, apiKey |-> <<>>, source |-> <<>>,
                   error |-> NoError]]

Event(what, k) == [what |-> what, k |-> k]

\* A failure handled inside the loop: the failed slice is skipped and the batch
\* goes on with the next one.
FailSkipsSlice(st, stage, k) ==
    IF k > 0 /\ k < Len(st.slices)
    THEN [st EXCEPT !.pc = "extract", !.i = k, !.failedAt = k,
                    !.log = Append(@, Event("extract", k + 1))]
    ELSE [st EXCEPT !.pc = "responded", !.failedAt = k,
                    !.resp = IF k = 0
                             THEN [status |-> 500, error |-> [stage |-> stage, k |-> k]]
                             ELSE [status |-> 200, ok |-> TRUE, slices |-> st.slices]]

\* The catch of the route (line 355) around a throw of buildAndUploadSlices: the
\* error of slice k (0: before the loop) becomes the whole response.
Fail(st, stage, k) ==
    [st EXCEPT !.pc = "responded",
               !.failedAt = k,
               !.resp = [status |-> 500, error |-> [stage |-> stage, k |-> k]]]

\* Lines 243-248: slice i (0-based) is rescaled and its extraction awaited.
StartSlice(st, i) ==
    [st EXCEPT !.pc = "extract",
               !.i = i,
               !.extractRect = clampExtractRect(st.slices[i + 1], SafePixelRatio4(st.req),
                                                st.req.sourceWidth, st.req.sourceHeight),
               !.log = Append(@, Event("extract", i + 1))]

\* An upload that is issued and not awaited: the loop goes on to the next slice
\* while it is in flight.
IssueUploadNoAwait(st, mime) ==
    LET st1 == [st EXCEPT !.uploads = Append(@, [name |-> <<SafeBatchName(st.req), "-slice-",
                                                           st.i + 1>>,
                                                 region |-> st.extractRect,
                                                 mimeType |-> mime,
                                                 apiKey |-> st.resolved.apiKey]),
                          !.inFlight = @ \cup {st.i + 1},
                          !.log = Append(@, Event("upload", st.i + 1))]
    IN  IF st.i + 1 < Len(st.slices)
        THEN [st1 EXCEPT !.pc = "extract", !.i = st.i + 1,
                         !.log = Append(@, Event("extract", st.i + 2))]
        ELSE [st1 EXCEPT !.pc = "upload"]

\* Lines 251-256: the upload of the compressed slice i is issued and awaited.
IssueUpload(st, mime) ==
    [st EXCEPT !.pc = "upload",
               !.uploads = Append(@, [name |-> <<SafeBatchName(st.req), "-slice-", st.i + 1>>,
                                      region |-> st.extractRect, mimeType |-> mime,
                                      apiKey |-> st.resolved.apiKey]),
               !.inFlight = @ \cup {st.i + 1},
               !.log = Append(@, Event("upload", st.i + 1))]

\* Lines 327-353: the response of a finished batch.
OkResponse(st, slices) ==
    [status |-> 200, ok |-> TRUE, accountId |-> st.resolved.accountId,
     batchName |-> SafeBatchName(st.req),
     sliceCount |-> Len(slices),
     manualMode |-> (Len(st.req.manualSlices) > 0),
     slices |-> [j \in 1..Len(slices) |->
                   [index |-> j, x |-> slices[j].x, y |-> slices[j].y,
                    width |-> slices[j].width, height |-> slices[j].height,
                    imageUrl |-> slices[j].imageUrl, url |-> slices[j].url,
                    label |-> slices[j].label, alt |-> slices[j].alt,
                    mimeType |-> slices[j].mimeType]]]

\* Lines 258-263 and the loop's step: the URL is attached to slice i, then the
\* next slice starts or the batch is returned and answered.
AttachAndContinue(st, imageUrl, mime) ==
    LET attached == [st.slices EXCEPT ![st.i + 1].imageUrl = imageUrl,
                                      ![st.i + 1].mimeType = mime]
        st1 == [st EXCEPT !.slices = attached,
                          !.inFlight = @ \ {st.i + 1},
                          !.log = Append(@, Event("uploaded", st.i + 1))]
    IN  IF st.i + 1 < Len(st.slices)
        THEN StartSlice(st1, st.i + 1)
        ELSE [st1 EXCEPT !.pc = "responded", !.resp = OkResponse(st1, attached)]

\* Lines 234-240: the rectangles of the batch, or none when the manual ones
\* are all dropped.
BatchSlices(req, bodyTop, bodyBottom) ==
    LET rects == IF Len(req.manualSlices) > 0
                 THEN normalizeManualRectSlices(req.logicalWidth, req.logicalHeight,
                                                bodyTop, bodyBottom, req.manualSlices)
                 ELSE buildAutoVerticalSlices(req.logicalWidth, bodyTop, bodyBottom,
                                              req.maxSliceHeight)
    IN  [j \in 1..Len(rects) |->
            [x |-> rects[j].x, y |-> rects[j].y, width |-> rects[j].width,
             height |-> rects[j].height, url |-> rects[j].url, label |-> rects[j].label,
             alt |-> rects[j].alt, imageUrl |-> "", mimeType |-> ""]]

\* Lines 286-314: the synchronous head of the handler, up to the first await,
\* for a request drawn from requests: resolveApiKey, then the required fields.
Receive(n, requests) ==
    /\ inv[n].pc = "idle"
    /\ \E req \in requests :
          LET resolved == resolveApiKey(req.accountId, env)
          IN  inv' = [inv EXCEPT ![n] =
                    IF ~resolved.ok
                    THEN [@ EXCEPT !.req = req, !.resolved = resolved, !.pc = "responded",
                                   !.resp = [status |-> 500,
                                             error |-> [stage |-> "credential", k |-> 0,
                                                        message |-> resolved.error.message,
                                                        expected |-> resolved.error.expected]]]
                    ELSE IF ~req.hasImage \/ req.logicalWidth = 0 \/ req.logicalHeight = 0
                    THEN [@ EXCEPT !.req = req, !.resolved = resolved, !.pc = "responded",
                                   !.resp = [status |-> 400,
                                             error |-> [stage |-> "fields", k |-> 0]]]
                    ELSE [@ EXCEPT !.req = req, !.resolved = resolved, !.pc = "metadata"]]
    /\ UNCHANGED <<call, cmp, env>>

PushReceive(n) == Receive(n, Requests)

\* Lines 221-248: the metadata arrive; the body region and the rectangles are
\* computed and the first slice starts.
MetadataDone(n) ==
    /\ inv[n].pc = "metadata"
    /\ LET st         == inv[n]
           bodyTop    == BodyTop(st.req.logicalHeight, st.req.headerHeight)
           bodyBottom == BodyBottom(st.req.logicalHeight, st.req.footerHeight)
           slices     == BatchSlices(st.req, bodyTop, bodyBottom)
       IN  inv' = [inv EXCEPT ![n] =
                     IF st.req.sourceWidth = 0 \/ st.req.sourceHeight = 0
                     THEN Fail(st, "dimensions", 0)
                     ELSE IF bodyBottom <= bodyTop THEN Fail(st, "body", 0)
                     ELSE IF slices = <<>> THEN Fail(st, "manual", 0)
                     ELSE StartSlice([st EXCEPT !.slices = slices], 0)]
    /\ UNCHANGED <<call, cmp, env>>

\* Lines 246-250: the extraction resolves and the compression is awaited.
ExtractDone(n) ==
    /\ inv[n].pc = "extract"
    /\ \E alpha \in BOOLEAN :
          inv' = [inv EXCEPT ![n] = [@ EXCEPT !.pc = "compress", !.hasAlpha = alpha,
                                              !.log = Append(@, Event("compress", inv[n].i + 1))]]
    /\ UNCHANGED <<call, cmp, env>>

\* Lines 250-256: compressSlice resolves and the upload is issued.
CompressDone(n) ==
    /\ inv[n].pc = "compress"
    /\ inv' = [inv EXCEPT ![n] =
                  IssueUpload(@, IF @.hasAlpha THEN "image/png" ELSE "image/jpeg")]
    /\ UNCHANGED <<call, cmp, env>>

\* Lines 251-263: the upload resolves with the image URL.
UploadDone(n) ==
    /\ inv[n].pc = "upload"
    /\ inv' = [inv EXCEPT ![n] =
                  AttachAndContinue(@, <<"https://img.example/", @.uploads[Len(@.uploads)].name>>,
                                    @.uploads[Len(@.uploads)].mimeType)]
    /\ UNCHANGED <<call, cmp, env>>

\* An awaited step of slice i rejects: extraction, compression, or the upload
\* (lines 156 and 159).
StepFails(n) ==
    /\ inv[n].pc \in {"extract", "compress", "upload"}
    /\ inv' = [inv EXCEPT ![n] =
                  Fail([@ EXCEPT !.inFlight = @ \ {inv[n].i + 1}], inv[n].pc, inv[n].i + 1)]
    /\ UNCHANGED <<call, cmp, env>>

InitPush ==
    /\ call = Idle
    /\ cmp = Idle
    /\ inv = [n \in Invocations |-> IdleInvocation]
    /\ env = DefaultEnvironment

NextPush ==
    \E n \in Invocations :
        \/ PushReceive(n)
        \/ MetadataDone(n)
        \/ ExtractDone(n)
        \/ CompressDone(n)
        \/ UploadDone(n)
        \/ StepFails(n)

SpecPush == InitPush /\ [][NextPush]_vars

-----------------------------------------------------------------------------
(* Claims about the push handler *)

\* The p-th step of a batch processed one slice after another.
StepKinds == <<"extract", "compress", "upload", "uploaded">>

CanonicalStep(p) == Event(StepKinds[((p - 1) % 4) + 1], ((p - 1) \div 4) + 1)

\* C9: within one invocation the slices are processed one after another in list
\* order: the steps of slice i+1 never start before the upload of slice i has
\* completed, at most one upload is in flight, and the k-th upload issued is
\* named {batchName}-slice-{k} and carries the pixels of the k-th rectangle.
C9_SequentialInOrder ==
    \A n \in Invocations :
        LET st == inv[n]
        IN  /\ Cardinality(st.inFlight) <= 1
            /\ \A p \in 1..Len(st.log) : st.log[p] = CanonicalStep(p)
            /\ \A k \in 1..Len(st.uploads) :
                  /\ st.uploads[k].name = <<SafeBatchName(st.req), "-slice-", k>>
                  /\ st.uploads[k].region
                        = clampExtractRect(st.slices[k], SafePixelRatio4(st.req),
                                           st.req.sourceWidth, st.req.sourceHeight)

\* One invocation has issued its third upload while another one, started
\* meanwhile, awaits its second.
C9_Witness ==
    \E n, m \in Invocations :
        /\ n # m
        /\ Len(inv[n].uploads) = 3 /\ inv[n].inFlight = {3}
        /\ Len(inv[m].uploads) = 2 /\ inv[m].inFlight = {2}

\* C10: when a step of slice k fails the invocation ends with that slice's
\* error: nothing is started for a later slice, and the response is a single
\* error message with no slice records, whatever was uploaded before; a
\* successful response carries every slice of the list with its imageUrl.
C10_FailureAbortsBatch ==
    \A n \in Invocations :
        LET st == inv[n]
        IN  /\ st.failedAt > 0
                => /\ st.pc = "responded"
                   /\ st.inFlight = {}
                   /\ st.resp.status = 500
                   /\ DOMAIN st.resp = {"status", "error"}
                   /\ st.resp.error.k = st.failedAt
                   /\ \A p \in 1..Len(st.log) : st.log[p].k <= st.failedAt
            /\ (st.pc = "responded" /\ st.resp.status # 200)
                => DOMAIN st.resp = {"status", "error"}
            /\ (st.pc = "responded" /\ st.resp.status = 200)
                => /\ st.failedAt = 0
                   /\ Len(st.resp.slices) = Len(st.slices)
                   /\ Len(st.uploads) = Len(st.slices)
                   /\ \A j \in 1..Len(st.resp.slices) :
                         /\ st.resp.slices[j].imageUrl
                               = <<"https://img.example/", st.uploads[j].name>>
                         /\ st.resp.slices[j].index = j

\* The upload of the third slice failed after two slices were uploaded: the
\* response is the error alone.
C10_Witness ==
    \E n \in Invocations :
        /\ inv[n].failedAt = 3
        /\ inv[n].resp.status = 500
        /\ inv[n].resp.error.stage = "upload"
        /\ Len(inv[n].uploads) = 3
        /\ inv[n].slices[1].imageUrl # "" /\ inv[n].slices[2].imageUrl # ""

-----------------------------------------------------------------------------
(* Credential resolution inside the handler: one request to /api/push in a
   process started with any of the environments below. *)

MaxIdLen == 2

\* The characters of a raw accountId: upper and lower case, both separators,
\* white space and a character the normalisation drops.
RawIdChars == {"A", "b", "-", "_", " ", "!"}

RawAccountIds == UNION { [1..len -> RawIdChars] : len \in 0..MaxIdLen }

\* KLAVIYO_ACCOUNTS: unset, "a", "b,a", " A ,,a,b", "_b,a" and "!,-b".
ConfiguredAccountLists ==
    { <<>>,
      <<"a">>,
      <<"b", ",", "a">>,
      <<" ", "A", " ", ",", ",", "a", ",", "b">>,
      <<"_", "b", ",", "a">>,
      <<"!", ",", "-", "b">> }

\* The KLAVIYO_API_KEY_<ID> variables a process may have set.
BindingNames ==
    { accountEnvKey(<<"a">>), accountEnvKey(<<"b">>), accountEnvKey(<<"_", "b">>) }

BindingsOf(names) == [name \in names |-> <<"secret-of">> \o name]

Environments ==
    [KLAVIYO_ACCOUNTS : ConfiguredAccountLists,
     KLAVIYO_API_KEY : {<<>>, <<"api-secret">>},
     KLAVIYO_PRIVATE_KEY : {<<>>, <<"private-secret">>},
     accountKeys : { BindingsOf(names) : names \in SUBSET BindingNames }]

\* A one-slice request for every raw accountId.
CredentialRequests ==
    { [AutoRequest EXCEPT !.accountId = raw, !.maxSliceHeight = None] :
          raw \in RawAccountIds }

CredentialReceive == Receive(1, CredentialRequests)

InitCredential ==
    /\ call = Idle
    /\ cmp = Idle
    /\ inv = [n \in Invocations |-> IdleInvocation]
    /\ env \in Environments

NextCredential ==
    \/ CredentialReceive
    \/ MetadataDone(1)
    \/ ExtractDone(1)
    \/ CompressDone(1)
    \/ UploadDone(1)
    \/ StepFails(1)

SpecCredential == InitCredential /\ [][NextCredential]_vars

\* The default credential of the process: KLAVIYO_API_KEY, else
\* KLAVIYO_PRIVATE_KEY, else none.
DefaultCredential ==
    IF env.KLAVIYO_API_KEY # <<>> THEN env.KLAVIYO_API_KEY ELSE env.KLAVIYO_PRIVATE_KEY

\* The binding of an account: the value of the variable named after it.
BindingOf(accountId) == EnvGet(env, accountEnvKey(accountId))

\* The invocation runs under the credential key as the account accountId:
\* every upload it issued carried key, and it did not answer with a
\* credential error.
RunsAs(st, accountId, key) ==
    /\ st.resolved.ok
    /\ st.resolved.accountId = accountId
    /\ st.resolved.apiKey = key
    /\ key # <<>>
    /\ \A u \in 1..Len(st.uploads) : st.uploads[u].apiKey = key
    /\ st.pc = "responded" => st.resp.status # 500 \/ st.resp.error.stage # "credential"
    /\ (st.pc = "responded" /\ st.resp.status = 200) => st.resp.accountId = accountId

\* The invocation ended at resolution: a 500 answer, and nothing was
\* sliced, extracted, compressed or uploaded.
ResolutionFailed(st) ==
    /\ st.pc = "responded"
    /\ ~st.resolved.ok
    /\ st.resp.status = 500
    /\ st.resp.error.stage = "credential"
    /\ st.slices = <<>>
    /\ st.log = <<>>
    /\ st.uploads = <<>>
    /\ st.inFlight = {}

\* C11: a received request runs under exactly one credential or fails at
\* resolution.  With a non-empty normalized accountId it runs under that
\* account's own binding, and without such a binding it fails naming the
\* binding's key, whatever default credential or other bindings exist.  With
\* an empty one it runs under the default credential if there is one, else
\* under the binding of the first configured account, else it fails.  A failed
\* resolution issues no upload and processes no image.
C11_ResolvesOneCredential ==
    LET st         == inv[1]
        accountId  == normalizeAccountId(st.req.accountId)
        configured == readConfiguredAccounts(env)
    IN  st.pc # "idle" =>
          /\ (accountId # <<>> /\ BindingOf(accountId) # <<>>)
                => RunsAs(st, accountId, BindingOf(accountId))
          /\ (accountId # <<>> /\ BindingOf(accountId) = <<>>)
                => /\ ResolutionFailed(st)
                   /\ st.resp.error.expected = accountEnvKey(accountId)
          /\ (accountId = <<>> /\ DefaultCredential # <<>>)
                => RunsAs(st, <<"default">>, DefaultCredential)
          /\ (accountId = <<>> /\ DefaultCredential = <<>> /\ configured # <<>>
                /\ BindingOf(configured[1]) # <<>>)
                => RunsAs(st, configured[1], BindingOf(configured[1]))
          /\ (accountId = <<>> /\ DefaultCredential = <<>>
                /\ (configured = <<>> \/ BindingOf(configured[1]) = <<>>))
                => ResolutionFailed(st)

\* A request for account "b" failed at resolution, naming KLAVIYO_API_KEY_B,
\* in a process that has a default credential and a binding for account "a",
\* which is also the first configured account.
C11_Witness ==
    /\ normalizeAccountId(inv[1].req.accountId) = <<"b">>
    /\ inv[1].req.accountId # <<"b">>
    /\ env.KLAVIYO_API_KEY # <<>>
    /\ readConfiguredAccounts(env) # <<>>
    /\ Head(readConfiguredAccounts(env)) = <<"a">>
    /\ BindingOf(<<"a">>) # <<>>
    /\ inv[1].pc = "responded"
    /\ inv[1].resp.status = 500
    /\ inv[1].resp.error.expected = <<"KLAVIYO_API_KEY_", "B">>
    /\ inv[1].uploads = <<>>

====
